---------------------------- MODULE Spec2Model ----------------------------
(***************************************************************************)
(* A model of lawdown.py, the SAX content handler LawToMarkdown that turns *)
(* the XML of a law into Markdown, and of law_to_markdown/main that run it *)
(* over one document after the other.                                      *)
(*                                                                         *)
(* Text is modelled character by character: a Python str is a sequence of  *)
(* one-character strings.  A few strings that the handler only ever writes *)
(* as a whole and never inspects (the '[^id]' anchor, the '[^id]: ' label, *)
(* the YAML block, an image link) are one element of such a sequence.      *)
(***************************************************************************)
EXTENDS Integers, Sequences, FiniteSets, TLC

(***************************************************************************)
(* Bounds of the model.                                                    *)
(***************************************************************************)
\* events (open, close, characters) of one document where elements nest freely
MaxEvents == 5
\* events of one document in the footnote scenario
MaxFootEvents == 10
\* events of one document in the metadata scenario
MaxMetaEvents == 13
\* events of one document in the table scenario
MaxTableEvents == 14
\* documents converted in one process by main's loop
MaxDocs == 2

\* events of one document in the table cell scenario
MaxCellEvents == 11

\* events of one document in the heading depth scenario
MaxDepthEvents == 32
\* metadaten blocks after the first one in the heading depth scenario
MaxDepthBlocks == 3
\* characters of the longest hierarchical numbering code
MaxCode == 18
\* events of one document in the heading title scenario
MaxTitleEvents == 22
\* metadaten blocks after the first one in the heading title scenario
MaxTitleBlocks == 1

\* events of one document in the Document header scenario
MaxHeadEvents == 20

\* events of one document in the batch scenario
MaxBatchEvents == 11

\* events of one document in the list scenario
MaxListEvents == 13

\* events of one document in the escape scenario
MaxEscapeEvents == 3
\* characters of one chunk of character data in the escape scenario
MaxChunk == 3

\* events of one document in the column scenario
MaxColEvents == 9

\* events of one document in the entry scenario
MaxEntryEvents == 12

\* events of one document in the emphasis scenario
MaxEmphEvents == 10

\* events of one document in the wrap scenario
MaxWrapEvents == 9

\* events of one document in the metadata field scenario
MaxFieldEvents == 12

(***************************************************************************)
(* Python's None for ignore_until, current_footnote and state[0], and for  *)
(* last_list_index (a str otherwise, so a sequence here).                  *)
(***************************************************************************)
None == "None"
NoneStr == <<"None">>

SP == " "
NL == "\n"
BSL == "\\"
\* str.strip() without arguments strips whitespace
WS == {SP, NL}
\* the two-character marker '\ ' that endElement('br') leaves in a table cell
MARK == <<BSL, SP>>
BR == <<"<", "b", "r", ">">>

(***************************************************************************)
(* str helpers                                                             *)
(***************************************************************************)
Top(st) == st[Len(st)]
Pop(st) == SubSeq(st, 1, Len(st) - 1)
InSeq(x, s) == \E i \in 1..Len(s) : s[i] = x
Max(a, b) == IF a >= b THEN a ELSE b
Min(a, b) == IF a <= b THEN a ELSE b

RECURSIVE Spaces(_)
Spaces(n) == IF n <= 0 THEN <<>> ELSE <<SP>> \o Spaces(n - 1)

RECURSIVE LStripSet(_, _)
LStripSet(s, cs) ==
    IF s # <<>> /\ Head(s) \in cs THEN LStripSet(Tail(s), cs) ELSE s

RECURSIVE RStripSet(_, _)
RStripSet(s, cs) ==
    IF s # <<>> /\ s[Len(s)] \in cs THEN RStripSet(Pop(s), cs) ELSE s

StripSet(s, cs) == LStripSet(RStripSet(s, cs), cs)
Strip(s) == StripSet(s, WS)

IsPrefix(p, s) == Len(p) <= Len(s) /\ SubSeq(s, 1, Len(p)) = p

\* str.find(p) + 1: where the first occurrence of p in s begins, 0 if there
\* is none
Find(s, p) ==
    IF \E i \in 1..(Len(s) - Len(p) + 1) : SubSeq(s, i, i + Len(p) - 1) = p
    THEN CHOOSE i \in 1..(Len(s) - Len(p) + 1) :
             /\ SubSeq(s, i, i + Len(p) - 1) = p
             /\ \A j \in 1..(i - 1) : SubSeq(s, j, j + Len(p) - 1) # p
    ELSE 0

\* str.replace(p, r): the occurrences of p from left to right
RECURSIVE Replace(_, _, _)
Replace(s, p, r) ==
    IF Find(s, p) = 0 THEN s
    ELSE SubSeq(s, 1, Find(s, p) - 1) \o r
             \o Replace(SubSeq(s, Find(s, p) + Len(p), Len(s)), p, r)

\* str.split(p): the list of blocks between the occurrences of p
RECURSIVE SplitFrom(_, _, _)
SplitFrom(s, p, cur) ==
    IF Find(s, p) = 0 THEN <<cur \o s>>
    ELSE <<cur \o SubSeq(s, 1, Find(s, p) - 1)>>
             \o SplitFrom(SubSeq(s, Find(s, p) + Len(p), Len(s)), p, <<>>)

Split(s, p) == SplitFrom(s, p, <<>>)

\* p.join(blocks)
RECURSIVE Join(_, _)
Join(blocks, p) ==
    IF Len(blocks) = 0 THEN <<>>
    ELSE IF Len(blocks) = 1 THEN blocks[1]
    ELSE blocks[1] \o p \o Join(Tail(blocks), p)

RECURSIVE Count(_, _)
Count(x, s) ==
    IF s = <<>> THEN 0 ELSE (IF Head(s) = x THEN 1 ELSE 0) + Count(x, Tail(s))

(***************************************************************************)
(* textwrap.wrap(text) with its default width of 70: the text is split     *)
(* into words and runs of whitespace, a line is filled with chunks while   *)
(* they fit, the whitespace at the end of a line and at the start of every *)
(* line but the first is dropped, and a line left empty is not a line.     *)
(* The texts of this model hold no word longer than the width, no hyphen   *)
(* and no tab, so no word is ever broken.                                  *)
(***************************************************************************)
WrapWidth == 70

\* the length of the run of whitespace (blank) or of other characters
\* (~blank) that s begins with
RECURSIVE RunLen(_, _)
RunLen(s, blank) ==
    IF s # <<>> /\ ((Head(s) \in WS) = blank) THEN 1 + RunLen(Tail(s), blank) ELSE 0

\* the chunks of s: words and runs of whitespace in turn
RECURSIVE wrap_split(_)
wrap_split(s) ==
    IF s = <<>> THEN <<>>
    ELSE <<SubSeq(s, 1, RunLen(s, Head(s) \in WS))>>
             \o wrap_split(SubSeq(s, RunLen(s, Head(s) \in WS) + 1, Len(s)))

\* the line cur is complete
wrap_close(cur, lines) ==
    IF RStripSet(cur, WS) = <<>> THEN lines ELSE Append(lines, RStripSet(cur, WS))

RECURSIVE wrap_fill(_, _, _)
wrap_fill(chunks, cur, lines) ==
    IF chunks = <<>> THEN wrap_close(cur, lines)
    ELSE IF cur = <<>> /\ lines # <<>> /\ Head(Head(chunks)) \in WS
    THEN wrap_fill(Tail(chunks), cur, lines)
    ELSE IF Len(cur) + Len(Head(chunks)) <= WrapWidth
    THEN wrap_fill(Tail(chunks), cur \o Head(chunks), lines)
    ELSE wrap_fill(chunks, <<>>, wrap_close(cur, lines))

wrap(t) == wrap_fill(wrap_split(Replace(t, <<NL>>, <<SP>>)), <<>>, <<>>)

(***************************************************************************)
(* list_start_re.sub('\\1\\.', line): a line starting with digits and a    *)
(* dot gets a backslash before the dot.                                    *)
(***************************************************************************)
Digits == {"1", "2"}

RECURSIVE DigitRun(_)
DigitRun(s) == IF s # <<>> /\ Head(s) \in Digits THEN 1 + DigitRun(Tail(s)) ELSE 0

list_start_re_sub(line) ==
    LET n == DigitRun(line) IN
    IF n > 0 /\ Len(line) > n /\ line[n + 1] = "."
    THEN SubSeq(line, 1, n) \o <<BSL>> \o SubSeq(line, n + 1, Len(line))
    ELSE line

(***************************************************************************)
(* no_emph_re[0] = (\S?|^)([\*_])(\S) and                                  *)
(* no_emph_re[1] = ([^\\s])([\*_])(\S?|$), each substituted by             *)
(* \1 \ \2 \3 from left to right over non-overlapping matches.  The class  *)
(* [^\\s] of the second one is written in a non-raw Python string: it      *)
(* excludes the backslash and the letter s, not whitespace.                *)
(***************************************************************************)
Emph == {"*", "_"}
NonSpace(c) == c \notin WS

\* the characters at the head of s that no match can touch: a match begins
\* at an emphasis character or at the character before one
Untouched(s) ==
    IF \E i \in 1..Len(s) : s[i] \in Emph
    THEN (CHOOSE i \in 1..Len(s) : s[i] \in Emph /\ \A j \in 1..(i - 1) : s[j] \notin Emph) - 2
    ELSE Len(s)

RECURSIVE no_emph_re_0(_)
no_emph_re_0(s) ==
    IF s = <<>> THEN <<>>
    ELSE IF Untouched(s) > 0
         THEN SubSeq(s, 1, Untouched(s)) \o no_emph_re_0(SubSeq(s, Untouched(s) + 1, Len(s)))
    ELSE IF Len(s) >= 3 /\ NonSpace(s[1]) /\ s[2] \in Emph /\ NonSpace(s[3])
         THEN <<s[1], BSL, s[2], s[3]>> \o no_emph_re_0(SubSeq(s, 4, Len(s)))
    ELSE IF Len(s) >= 2 /\ s[1] \in Emph /\ NonSpace(s[2])
         THEN <<BSL, s[1], s[2]>> \o no_emph_re_0(SubSeq(s, 3, Len(s)))
    ELSE <<Head(s)>> \o no_emph_re_0(Tail(s))

RECURSIVE no_emph_re_1(_)
no_emph_re_1(s) ==
    IF s = <<>> THEN <<>>
    ELSE IF Untouched(s) > 0
         THEN SubSeq(s, 1, Untouched(s)) \o no_emph_re_1(SubSeq(s, Untouched(s) + 1, Len(s)))
    ELSE IF Len(s) >= 2 /\ s[1] \notin {BSL, "s"} /\ s[2] \in Emph
         THEN IF Len(s) >= 3 /\ NonSpace(s[3])
              THEN <<s[1], BSL, s[2], s[3]>> \o no_emph_re_1(SubSeq(s, 4, Len(s)))
              ELSE <<s[1], BSL, s[2]>> \o no_emph_re_1(SubSeq(s, 3, Len(s)))
    ELSE <<Head(s)>> \o no_emph_re_1(Tail(s))

(***************************************************************************)
(* The handler.  h is the record of the fields of one LawToMarkdown        *)
(* instance together with the two class attributes it mutates in place     *)
(* (state, footnotes) and the text written to fileout.  err is the         *)
(* exception that ended the parse ("" while none was raised).              *)
(***************************************************************************)
Raise(h, e) == [h EXCEPT !.err = e]

out(h, content) == [h EXCEPT !.fileout = @ \o content]

write(h, content, custombreaks) ==
    out(h, content \o (IF custombreaks THEN <<>> ELSE <<NL>>))

indent_by == Spaces(4)

RECURSIVE Times(_, _)
Times(s, n) == IF n <= 0 THEN <<>> ELSE s \o Times(s, n - 1)

out_indented(h, content, indent) == out(out(h, Times(indent_by, indent)), content)

\* write_wrapped, the body of "for line in wrap(text)"
write_line(h, line, first_indent, indent) ==
    IF first_indent # <<>>
    THEN write(out(h, first_indent), line, FALSE)
    ELSE write(out(h, Times(indent_by, indent)), list_start_re_sub(line), FALSE)

\* write_wrapped, "for line in wrap(text)"
RECURSIVE write_lines(_, _, _, _)
write_lines(h, lines, first_indent, indent) ==
    IF lines = <<>> THEN h
    ELSE write_lines(write_line(h, Head(lines), first_indent, indent),
                     Tail(lines), <<>>, indent)

\* write_wrapped, "if self.last_list_index is not None"
first_indent_of(last_list_index) ==
    IF last_list_index # NoneStr
    THEN <<SP>> \o SubSeq(indent_by, 1, Max(0, Len(indent_by) - (Len(last_list_index) + 1)))
    ELSE <<>>

\* write_wrapped from "if custombreaks" on
write_wrapped_from(h, t, first_indent, custombreaks) ==
    IF custombreaks
    THEN write(out(h, Times(indent_by, h.indent_level)), t, TRUE)
    ELSE write_lines(h, wrap(t), first_indent, h.indent_level)

write_wrapped(h, t, custombreaks) ==
    write_wrapped_from([h EXCEPT !.last_list_index = NoneStr], t,
                       first_indent_of(h.last_list_index), custombreaks)

\* the last three lines of flush_text: what it does to a text without marker
flush_block(h, custombreaks) ==
    [(IF Strip(h.text) # <<>> THEN write_wrapped(h, h.text, custombreaks) ELSE h)
        EXCEPT !.text = <<>>]

\* flush_text, "for block in blocks[1:]"
RECURSIVE flush_blocks(_, _)
flush_blocks(h, blocks) ==
    IF blocks = <<>> THEN h
    ELSE flush_blocks(write(flush_block([h EXCEPT !.text = Head(blocks)], FALSE),
                            <<>>, FALSE),
                      Tail(blocks))

\* flush_text, "blocks[-1] = blocks[-1].replace('\ ', ' ').strip()"
strip_last(blocks) ==
    [blocks EXCEPT ![Len(blocks)] = Strip(Replace(@, MARK, <<SP>>))]

\* flush_text, "if blocks[0] != '': self.write(); self.indent_level += 1"
indent_blocks(h, first) ==
    IF first # <<>> THEN [write(h, <<>>, FALSE) EXCEPT !.indent_level = @ + 1] ELSE h

\* flush_text, "if blocks[0] != '': self.indent_level -= 1"
dedent_blocks(h, first) ==
    IF first # <<>> THEN [h EXCEPT !.indent_level = @ - 1] ELSE h

\* flush_text without custombreaks, blocks being self.text.split('\ ')
flush_split(h, blocks) ==
    IF Len(blocks) > 1
    THEN flush_block(
             dedent_blocks(
                 flush_blocks(
                     indent_blocks(flush_block([h EXCEPT !.text = blocks[1]], FALSE),
                                   blocks[1]),
                     Tail(blocks)),
                 blocks[1]),
             FALSE)
    ELSE flush_block(h, FALSE)

flush_text(h, custombreaks) ==
    IF custombreaks THEN flush_block(h, TRUE)
    ELSE flush_split(h, strip_last(Split(h.text, MARK)))

\* write_list_item, "self.out_indented(self.list_index, indent=self.indent_level - 1)"
write_list_index(h) == out_indented(h, h.list_index, h.indent_level - 1)

write_list_item(h) ==
    [write_list_index([h EXCEPT !.last_list_index = h.list_index]) EXCEPT !.list_index = <<>>]

\* a characters that does not look at ignore_until: inside an ignore span it
\* would collect the character data
characters_unguarded(h, chunk) ==
    [h EXCEPT !.current_text =
                  @ \o Strip(Replace(no_emph_re_1(no_emph_re_0(chunk)), <<NL>>, <<SP>>)),
              !.no_tag = TRUE]

characters(h, chunk) ==
    IF h.ignore_until # None THEN h
    ELSE [h EXCEPT !.current_text =
                       @ \o Strip(Replace(no_emph_re_1(no_emph_re_0(chunk)), <<NL>>, <<SP>>)),
                   !.no_tag = TRUE]

(***************************************************************************)
(* self.meta, a defaultdict(list): a function from the keys it holds to    *)
(* the list of the texts collected under that key.                         *)
(***************************************************************************)
EmptyMeta == [k \in {} |-> <<>>]
Has(h, k) == k \in DOMAIN h.meta
MetaAdd(m, k, t) ==
    IF k \in DOMAIN m THEN [m EXCEPT ![k] = Append(@, t)] ELSE m @@ (k :> <<t>>)

\* 'Inhaltsübersicht', the title of the table of contents (its u-umlaut
\* written ue)
TOC == <<"I", "n", "h", "a", "l", "t", "s", "u", "e", "b", "e", "r", "s", "i", "c", "h", "t">>

\* str.lower() and str.upper() on the model's alphabet
Lower(c) == CASE c = "A" -> "a" [] c = "B" -> "b" [] OTHER -> c
Upper(c) == CASE c = "a" -> "A" [] c = "b" -> "B" [] c = "x" -> "X" [] c = "s" -> "S"
              [] OTHER -> c

\* str.capitalize()
capitalize(t) ==
    [i \in 1..Len(t) |-> IF i = 1 THEN Upper(t[i]) ELSE Lower(t[i])]

\* one character of store_filename: lower(), then [^\w-] -> '_' (the model's
\* alphabet holds none of the letters the umlaut replacements rewrite)
store_filename_char(c) ==
    CASE Lower(c) \in {"a", "b", "x", "s", "1", "2", "_", "-"} -> <<Lower(c)>>
      [] OTHER -> <<"_">>

RECURSIVE store_filename_map(_)
store_filename_map(abk) ==
    IF abk = <<>> THEN <<>>
    ELSE store_filename_char(Head(abk)) \o store_filename_map(Tail(abk))

\* abk.lower().strip(), the umlaut replacements, then [^\w-] -> '_'
store_filename(h, abk) == [h EXCEPT !.filename = store_filename_map(Strip(abk))]

clean_title(title) ==
    Replace(Strip(Replace(title, <<SP, BSL, "*", ")">>, <<>>)), <<BSL, "*">>, <<"*">>)


\* write_big_header, the body of "for text in self.meta.get('standkommentar', [])"
write_stand(h, t, parts) ==
    IF Len(parts) = 1
    THEN write(h, <<"Stand: ">> \o t, FALSE)
    ELSE write(h, capitalize(parts[1]) \o <<" durch", NL, ":   ">>
                  \o Join(Tail(parts), <<SP, "d", "u", "r", "c", "h", SP>>) \o <<NL>>,
               FALSE)

\* write_big_header, "for text in self.meta.get('standkommentar', [])"
RECURSIVE write_standkommentar(_, _)
write_standkommentar(h, texts) ==
    IF texts = <<>> THEN h
    ELSE write_standkommentar(
             write_stand(h, Head(texts), Split(Head(texts), <<SP, "d", "u", "r", "c", "h", SP>>)),
             Tail(texts))

(***************************************************************************)
(* write_big_header.  yaml.safe_dump writes '---' and the mapping with its *)
(* keys sorted: Title, jurabk, layout, origslug, slug.                     *)
(***************************************************************************)
\* "if self.yaml_header: ... else: ..."
write_meta_block(h, title, jurabk) ==
    IF h.yaml_header
    THEN write(out(h, <<"---", NL, "Title: ">> \o title
                      \o <<NL, "jurabk: ">> \o jurabk
                      \o <<NL, "layout: default", NL, "origslug: ", "<orig_slug>", NL,
                           "slug: ">> \o h.filename \o <<NL>>),
               <<NL, "---">>, FALSE)
    ELSE write(write(write(write(h,
               <<"Title: ">> \o title, FALSE),
               <<"origslug: ", "<orig_slug>">>, FALSE),
               <<"jurabk: ">> \o jurabk, FALSE),
               <<"slug: ">> \o h.filename, FALSE)

\* "self.write(); heading = ...; self.write(heading); self.write()"
write_heading(h, heading) ==
    write(write(write(h, <<>>, FALSE), heading, FALSE), <<>>, FALSE)

\* a write_big_header that writes the 'Ausfertigungsdatum' line of every
\* block, with no date when the block has none
write_ausfertigung_always(h) ==
    write(h, <<"Ausfertigungsdatum", NL, ":   ">>
             \o (IF Has(h, "ausfertigung-datum") THEN h.meta["ausfertigung-datum"][1] ELSE <<>>)
             \o <<NL>>, FALSE)

\* "if 'ausfertigung-datum' in self.meta"
write_ausfertigung(h) ==
    IF Has(h, "ausfertigung-datum")
    THEN write(h, <<"Ausfertigungsdatum", NL, ":   ">>
                  \o h.meta["ausfertigung-datum"][1] \o <<NL>>, FALSE)
    ELSE h

\* "if 'periodikum' in self.meta and 'zitstelle' in self.meta"
write_fundstelle(h) ==
    IF Has(h, "periodikum") /\ Has(h, "zitstelle")
    THEN write(h, <<"Fundstelle", NL, ":   ">> \o h.meta["periodikum"][1]
                  \o <<":", SP>> \o h.meta["zitstelle"][1] \o <<NL>>, FALSE)
    ELSE h

\* write_big_header once the file name is stored and the title cleaned
write_big_header_from(h, title, jurabk) ==
    [write_standkommentar(
         write_fundstelle(
             write_ausfertigung(
                 write_heading(write_meta_block(h, title, jurabk),
                               <<"#", SP>> \o title \o <<SP, "(">> \o jurabk \o <<")">>))),
         IF Has(h, "standkommentar") THEN h.meta["standkommentar"] ELSE <<>>)
        EXCEPT !.text = <<>>]

write_big_header(h) ==
    IF ~h.has_meta THEN Raise(h, "AttributeError")
    ELSE IF ~Has(h, "jurabk") \/ ~Has(h, "langue") THEN Raise(h, "IndexError")
    ELSE write_big_header_from(store_filename(h, h.meta["jurabk"][1]),
                               clean_title(h.meta["langue"][1]), h.meta["jurabk"][1])

(***************************************************************************)
(* write_norm_header.  heading_num is len(code) / 3 + 1 in Python 3, a     *)
(* float: current_heading_num holds three times its value, and the number  *)
(* of '#' is int(min(heading_num, 6)).  law_to_markdown never sets         *)
(* heading_anchor, so link is ''.                                          *)
(***************************************************************************)
\* three times heading_num
heading_num3(h) ==
    IF Has(h, "gliederungskennzahl") THEN Len(h.meta["gliederungskennzahl"][1]) + 3
    ELSE h.current_heading_num + 3

\* title after "if 'gliederungsbez' in self.meta"
title_bez(h) == IF Has(h, "gliederungsbez") THEN h.meta["gliederungsbez"][1] ELSE <<>>

\* title after "if 'gliederungstitel' in self.meta"
title_gliederung(h, title) ==
    IF Has(h, "gliederungstitel")
    THEN IF title # <<>> THEN title \o <<SP, "-", SP>> \o h.meta["gliederungstitel"][1]
         ELSE h.meta["gliederungstitel"][1]
    ELSE title

\* title after "if 'enbez' in self.meta"
title_enbez(h, title) == IF Has(h, "enbez") THEN h.meta["enbez"][1] ELSE title

\* title after "if 'titel' in self.meta"
title_titel(h, title) ==
    IF Has(h, "titel")
    THEN IF title # <<>> THEN title \o <<SP>> \o h.meta["titel"][1]
         ELSE h.meta["titel"][1]
    ELSE title

\* a write_norm_header that does not clamp: a code of 15 characters or more
\* would give a heading of more than six '#'
write_norm_header_unclamped(h, heading_num, title) ==
    IF title = <<>> THEN h
    ELSE write_heading(h, Times(<<"#">>, heading_num \div 3) \o <<SP>> \o title)

\* write_norm_header from "if not title: return" on
write_norm_header_from(h, heading_num, title) ==
    IF title = <<>> THEN h
    ELSE write_heading(h, Times(<<"#">>, Min(heading_num, 18) \div 3) \o <<SP>> \o title)

\* a write_norm_header that remembers the depth of every header, also of
\* one without code: a run of such headers would get deeper and deeper
write_norm_header_accumulating(h) ==
    IF ~h.has_meta THEN Raise(h, "AttributeError")
    ELSE write_norm_header_from(
             [h EXCEPT !.current_heading_num = heading_num3(h)],
             heading_num3(h),
             title_titel(h, title_enbez(h, title_gliederung(h, title_bez(h)))))

write_norm_header(h) ==
    IF ~h.has_meta THEN Raise(h, "AttributeError")
    ELSE write_norm_header_from(
             IF Has(h, "gliederungskennzahl")
             THEN [h EXCEPT !.current_heading_num = heading_num3(h)] ELSE h,
             heading_num3(h),
             title_titel(h, title_enbez(h, title_gliederung(h, title_bez(h)))))


(***************************************************************************)
(* "x in ('thead')": the parentheses make no tuple, so this is Python's    *)
(* substring test on a str, and a TypeError when x is None.  Of the names  *)
(* the handler pushes, only s itself and (for 'theader') 'thead' are       *)
(* substrings.                                                             *)
(***************************************************************************)
InStr(x, s) == x = s \/ (s = "theader" /\ x = "thead")

TableStates == {"table", "tbody"}
\* ('table', 'theader', 'tbody'), a tuple
CellStates == {"table", "theader", "tbody"}

Anchor(id) == "[^" \o id \o "]"
Label(id) == "[^" \o id \o "]: "
Img(attrs) == "![" \o (IF "ALT" \in DOMAIN attrs THEN attrs.ALT ELSE attrs.SRC)
                   \o "](" \o attrs.SRC \o ")"


\* startElement('tbody'), the header line and the separator line of the table
write_table_header(h) ==
    flush_text([h EXCEPT !.text = Replace(h.table_header, MARK, BR) \o <<NL>>], TRUE)

write_head_separator(h) ==
    flush_text([h EXCEPT !.text = h.head_separator \o <<NL>>], TRUE)

\* startElement('dl'), "if 'table' not in self.state: ... else: ..."
start_dl(h) ==
    IF ~InSeq("table", h.state) THEN write(flush_text(h, FALSE), <<>>, FALSE)
    ELSE [h EXCEPT !.text = @ \o BR]

\* startElement('dd'), "if self.state[-1] == 'have_tick_number': ... else: ..."
start_dd(h) ==
    IF Top(h.state) = "have_tick_number" THEN [h EXCEPT !.state = Pop(@)]
    ELSE [h EXCEPT !.list_index = <<"*">>]

\* startElement('img') outside a table, after its flush_text
write_img(h, attrs) ==
    IF "SRC" \notin DOMAIN attrs THEN Raise(h, "KeyError")
    ELSE out_indented(h, <<Img(attrs)>>, h.indent_level)

\* startElement from "if name == 'table'" on: the chain of elif over name
startElement_dispatch(h, name, attrs) ==
    CASE name = "table" ->
            [flush_text([h EXCEPT !.text = @ \o <<SP>>], FALSE)
                EXCEPT !.table_header = <<"|", SP>>,
                       !.state = Append(@, "table"),
                       !.head_separator = <<"|">>]
      [] name = "colspec" ->
            [h EXCEPT !.table_header = @ \o Spaces(6) \o <<"|", SP>>,
                      !.head_separator =
                          IF "align" \notin DOMAIN attrs \/ attrs.align = "center"
                          THEN @ \o <<SP, ":", "-", "-", "-", ":", SP, "|">>
                          ELSE IF attrs.align = "justify"
                          THEN @ \o <<SP, ":", "-", "-", "-", "-", SP, "|">>
                          ELSE @]
      [] name = "thead" ->
            [h EXCEPT !.col_num = 0, !.state = Append(@, "thead")]
      [] name = "tbody" ->
            [write_head_separator(write_table_header(h)) EXCEPT !.state = Append(@, "tbody")]
      [] name = "dl" ->
            [start_dl(h) EXCEPT !.indent_level = @ + 1, !.state = Append(@, "list")]
      [] name = "br" -> h
      [] name = "row" ->
            IF Top(h.state) = None THEN Raise(h, "TypeError")
            ELSE IF InStr(Top(h.state), "thead") THEN [h EXCEPT !.col_num = 0]
            ELSE h
      [] name = "dd" ->
            [write_list_item(start_dd(h)) EXCEPT !.in_list_item = @ + 1]
      [] name = "la" /\ InSeq("table", h.state) ->
            [h EXCEPT !.last_list_index = h.list_index,
                      !.text = @ \o h.list_index \o <<SP>>,
                      !.list_index = <<>>]
      [] name = "entry" ->
            IF Top(h.state) \in TableStates
            THEN [h EXCEPT !.current_text = Strip(@) \o <<"|", SP>>]
            ELSE IF Top(h.state) = None THEN Raise(h, "TypeError")
            ELSE IF InStr(Top(h.state), "thead") THEN h
            ELSE write_list_item([h EXCEPT !.indent_level = @ + 1,
                                           !.in_list_item = @ + 1,
                                           !.list_index = <<"*">>])
      [] name = "img" ->
            IF Top(h.state) \in CellStates
            THEN IF "SRC" \notin DOMAIN attrs THEN Raise(h, "KeyError")
                 ELSE [h EXCEPT !.current_text = @ \o <<SP, Img(attrs), SP>>]
            ELSE write_img(flush_text(h, FALSE), attrs)
      [] name = "dt" -> [h EXCEPT !.state = Append(@, "read_list_index")]
      [] name \in {"u", "b", "f", "sp", "tgroup", "quoter"} -> h
      [] OTHER ->
            IF Top(h.state) \notin {"table", "thead", "tbody"} THEN flush_text(h, FALSE)
            ELSE h

\* startElement('fnr') outside metadata: the anchor of an id not yet in
\* self.footnotes
write_anchor(h, name, attrs) ==
    IF name = "fnr" /\ attrs.ID \notin h.footnotes
    THEN write([h EXCEPT !.footnotes = @ \cup {attrs.ID}], <<Anchor(attrs.ID)>>, FALSE)
    ELSE h

\* startElement, "if name == 'fussnoten'"
start_fussnoten(h, name) ==
    IF name = "fussnoten" THEN [h EXCEPT !.ignore_until = "fussnoten"] ELSE h

\* startElement, "if name == 'text'" and "if name == 'footnotes'"
start_text(h, name) ==
    CASE name = "text" -> [h EXCEPT !.indent_level = 0, !.state = Append(@, "text")]
      [] name = "footnotes" -> [h EXCEPT !.state = Append(@, "footnotes")]
      [] OTHER -> h

\* startElement, "if name == 'footnote'" inside a footnotes container
start_footnote(h, attrs) ==
    IF "ID" \notin DOMAIN attrs THEN Raise([h EXCEPT !.indent_level = @ + 1], "KeyError")
    ELSE [h EXCEPT !.indent_level = @ + 1, !.current_footnote = attrs.ID]

\* startElement from "if self.state[-1] == 'footnotes'" on
startElement_routed(h, name, attrs) ==
    IF h.state = <<>> THEN Raise(h, "IndexError")
    ELSE IF Top(h.state) = "footnotes"
    THEN IF name = "footnote" THEN start_footnote(h, attrs) ELSE h
    ELSE startElement_dispatch([h EXCEPT !.text = @ \o h.current_text, !.current_text = <<>>],
                               name, attrs)

\* startElement from "if name == 'fussnoten'" on
startElement_open(h, name, attrs) ==
    IF name = "metadaten"
    THEN [h EXCEPT !.meta = EmptyMeta, !.has_meta = TRUE, !.state = Append(@, "meta")]
    ELSE startElement_routed(start_text(h, name), name, attrs)

startElement(h0, name, attrs) ==
    LET h == [h0 EXCEPT !.no_tag = FALSE] IN
    IF h.ignore_until # None THEN h
    ELSE IF name = "fnr" /\ h.state = <<>> THEN Raise(h, "IndexError")
    ELSE IF name = "fnr" /\ Top(h.state) = "meta" THEN [h EXCEPT !.ignore_until = "fnr"]
    ELSE IF name = "fnr" /\ "ID" \notin DOMAIN attrs THEN Raise(h, "KeyError")
    ELSE startElement_open(start_fussnoten(write_anchor(h, name, attrs), name), name, attrs)


\* endElement, "elif name == 'row'"
end_row(h) ==
    IF Top(h.state) \in TableStates
    THEN flush_text([h EXCEPT !.text = Replace(@, MARK, BR) \o <<SP, "|", NL>>], TRUE)
    ELSE IF Top(h.state) = None THEN Raise(h, "TypeError")
    ELSE h

\* endElement('entry') in the table head: the text joins its header cell
end_header_entry(h, cells, k) ==
    IF k > Len(cells) THEN Raise(h, "IndexError")
    ELSE [h EXCEPT !.table_header =
                       Join([cells EXCEPT ![k] =
                                 StripSet(Strip(@) \o MARK \o h.text, {SP, BSL}) \o <<SP>>],
                            <<"|", SP>>),
                   !.text = <<>>]

\* endElement('entry') of a list: "self.flush_text(); self.in_list_item -= 1;
\* self.flush_text(); self.indent_level -= 1; self.write()"
end_list_entry(h) ==
    write([flush_text([flush_text(h, FALSE) EXCEPT !.in_list_item = @ - 1], FALSE)
              EXCEPT !.indent_level = @ - 1],
          <<>>, FALSE)

\* endElement('entry') after "self.col_num += 1"
end_entry(h) ==
    IF Top(h.state) \in TableStates THEN [h EXCEPT !.text = @ \o <<SP>>]
    ELSE IF Top(h.state) = None THEN Raise(h, "TypeError")
    ELSE IF InStr(Top(h.state), "theader")
    THEN end_header_entry(h, Split(h.table_header, <<"|", SP>>), h.col_num + 1)
    ELSE end_list_entry(h)

\* endElement from "if name == 'br'" on: the chain of elif over name
endElement_dispatch(h, name) ==
    CASE name = "br" ->
            IF Top(h.state) \in CellStates THEN [h EXCEPT !.text = @ \o <<SP>> \o MARK]
            ELSE IF Top(h.state) = None THEN Raise(h, "TypeError")
            ELSE h
      [] name = "table" -> [write(h, <<>>, FALSE) EXCEPT !.state = Pop(@)]
      [] name = "thead" -> [h EXCEPT !.state = Pop(@)]
      [] name = "tbody" -> [h EXCEPT !.state = Pop(@)]
      [] name = "dl" ->
            [(IF ~InSeq("table", h.state) THEN write(h, <<>>, FALSE) ELSE h)
                EXCEPT !.indent_level = @ - 1, !.state = Pop(@)]
      [] name = "entry" -> end_entry([h EXCEPT !.col_num = @ + 1])
      [] name = "dd" ->
            IF ~InSeq("table", h.state)
            THEN write([flush_text(h, FALSE) EXCEPT !.in_list_item = @ - 1], <<>>, FALSE)
            ELSE h
      [] name = "la" ->
            IF ~InSeq("table", h.state)
            THEN flush_text([h EXCEPT !.text = @ \o <<SP>>], FALSE)
            ELSE [h EXCEPT !.text = @ \o BR]
      [] name = "kommentar" -> [h EXCEPT !.text = Replace(@, MARK, <<>>)]
      [] name = "row" -> end_row(h)
      [] name = "nb" -> flush_text(h, FALSE)
      [] name = "p" ->
            write(flush_text([h EXCEPT !.text = @ \o <<SP>>], FALSE), <<>>, FALSE)
      [] name \in {"title", "subtitle"} ->
            write(flush_text([h EXCEPT !.text = <<"#", "#", SP>> \o Replace(@, <<NL>>, <<SP>>)],
                             FALSE),
                  <<>>, FALSE)
      [] OTHER -> h

\* a write_label that leaves current_footnote set: every later close would
\* write the label again
write_label_kept(h) ==
    IF h.current_footnote # None THEN out(h, <<Label(h.current_footnote)>>) ELSE h

\* endElement, "if self.current_footnote:"
write_label(h) ==
    IF h.current_footnote # None
    THEN [out(h, <<Label(h.current_footnote)>>) EXCEPT !.current_footnote = None]
    ELSE h

\* endElement('dt') in state read_list_index
end_dt(h) ==
    [(IF ~InSeq("table", h.state) THEN write_list_item(h) ELSE h)
        EXCEPT !.state = Append(Pop(@), "have_tick_number")]

\* endElement, "if self.state[-1] == 'read_list_index'"
end_list_index(h, name) ==
    IF name = "dt"
    THEN end_dt([h EXCEPT !.list_index = IF @ \o h.text = <<>> THEN <<"*">> ELSE @ \o h.text,
                          !.text = <<>>])
    ELSE [h EXCEPT !.list_index = @ \o h.text, !.text = <<>>]

\* endElement from "if self.state[-1] == 'read_list_index'" on
endElement_labelled(h, name) ==
    IF h.state = <<>> THEN Raise(h, "IndexError")
    ELSE IF Top(h.state) = "read_list_index" THEN end_list_index(h, name)
    ELSE endElement_dispatch(h, name)

\* endElement from "if self.current_footnote" on
endElement_tail(h, name) == endElement_labelled(write_label(h), name)

\* a write_header that leaves first_meta set: the next metadaten block
\* would get a Document header as well
write_header_unmarked(h) ==
    IF h.first_meta THEN write_big_header(h) ELSE write_norm_header(h)

\* endElement, "if name == 'metadaten':" after "self.state.pop()"
write_header(h) ==
    IF h.first_meta THEN write_big_header([h EXCEPT !.first_meta = FALSE])
    ELSE write_norm_header(h)

\* endElement, "self.text = ''; return" unless the header raised
end_header(h) == IF h.err # "" THEN h ELSE [h EXCEPT !.text = <<>>]

\* endElement, "if name == 'metadaten':"
end_metadaten(h) ==
    IF h.state = <<>> THEN Raise(h, "IndexError")
    ELSE end_header(write_header([h EXCEPT !.state = Pop(@)]))

\* endElement, "if self.state[-1] == 'meta':"
end_meta_field(h, name) ==
    IF name = "enbez" /\ h.text = TOC
    THEN [h EXCEPT !.ignore_until = "textdaten", !.text = <<>>]
    ELSE IF ~h.has_meta THEN Raise(h, "AttributeError")
    ELSE [h EXCEPT !.meta = MetaAdd(@, name, h.text), !.text = <<>>]

\* endElement, "elif self.state[-1] == 'footnotes':"
end_in_footnotes(h, name) ==
    CASE name = "footnote" -> [flush_text(h, FALSE) EXCEPT !.indent_level = @ - 1]
      [] name = "footnotes" -> write([h EXCEPT !.state = Pop(@)], <<>>, FALSE)
      [] OTHER -> h

\* endElement from "if self.state[-1] == 'meta'" on
endElement_routed(h, name) ==
    IF h.state = <<>> THEN Raise(h, "IndexError")
    ELSE IF Top(h.state) = "meta" THEN end_meta_field(h, name)
    ELSE endElement_tail(IF Top(h.state) = "footnotes" THEN end_in_footnotes(h, name) ELSE h,
                         name)

\* endElement from "if name == 'metadaten'" on
endElement_open(h, name) ==
    IF name = "metadaten" THEN end_metadaten(h)
    ELSE IF name = "text"
    THEN IF h.state = <<>> THEN Raise(h, "IndexError")
         ELSE endElement_routed([h EXCEPT !.state = Pop(@)], name)
    ELSE endElement_routed(h, name)

\* endElement, "if name == 'u': ... self.text += self.current_text"
collect_text(h, name) ==
    [h EXCEPT !.text = @ \o (CASE name = "u" -> <<SP, "*">> \o Strip(h.current_text) \o <<"*", SP>>
                               [] name = "f" -> <<"*">>
                               [] name = "b" -> <<SP, "*", "*">> \o Strip(h.current_text)
                                                \o <<"*", "*", SP>>
                               [] OTHER -> h.current_text),
              !.current_text = <<>>]

endElement(h0, name) ==
    LET h == [h0 EXCEPT !.no_tag = FALSE] IN
    IF h.ignore_until # None
    THEN IF h.ignore_until = name THEN [h EXCEPT !.ignore_until = None] ELSE h
    ELSE endElement_open(collect_text(h, name), name)


(***************************************************************************)
(* The state.  state and footnotes are class attributes of LawToMarkdown,  *)
(* a list and a dict that every instance mutates in place; self holds the  *)
(* attributes an instance gets of its own by assignment; fileout is the    *)
(* StringIO that law_to_markdown hands to the handler; err is the          *)
(* exception that ended parser.parse ("" while there is none).  The input  *)
(* side: open is the parser's stack of open elements, docs the number of   *)
(* documents main has started, and trace the events the handler has been   *)
(* given for the current document, each with the context it arrived in     *)
(* (ignore_until and the top of state before the event, the length of      *)
(* fileout before and after it, indent_level after it).                    *)
(***************************************************************************)
VARIABLES state, footnotes, self, fileout, err, open, docs, trace

vars == <<state, footnotes, self, fileout, err, open, docs, trace>>

\* the class attributes of lines 36-54 as a fresh instance reads them, and
\* the attributes __init__ sets
FreshSelf(yaml) ==
    [text |-> <<>>, current_text |-> <<>>, list_index |-> <<>>, first_meta |-> TRUE,
     ignore_until |-> None, indent_level |-> 0, in_list_item |-> 0, no_tag |-> TRUE,
     last_list_index |-> NoneStr, current_heading_num |-> 3, current_footnote |-> None,
     col_num |-> 0, table_header |-> <<>>, head_separator |-> <<>>,
     meta |-> EmptyMeta, has_meta |-> FALSE, filename |-> <<>>, yaml_header |-> yaml]

SelfFields == DOMAIN FreshSelf(TRUE)

\* the handler as the operators above see it
H == self @@ [state |-> state, footnotes |-> footnotes, fileout |-> fileout, err |-> err]

Install(r) ==
    /\ state' = r.state
    /\ footnotes' = r.footnotes
    /\ fileout' = r.fileout
    /\ err' = r.err
    /\ self' = [k \in SelfFields |-> r[k]]

NoAttrs == [k \in {} |-> ""]
Ids == {"1", "2"}

Event(kind, name, attrs, chunk, r) ==
    [kind |-> kind, name |-> name, attrs |-> attrs, chunk |-> chunk,
     ign |-> self.ignore_until,
     top |-> IF state = <<>> THEN "" ELSE Top(state),
     from |-> Len(fileout), to |-> Len(r.fileout),
     level |-> r.indent_level]

(***************************************************************************)
(* The events.  parser.parse calls the handler once per event of a         *)
(* well-nested document and stops at the first exception.  limit bounds    *)
(* the events of one document.  The parser may deliver character data in   *)
(* several chunks; here a chunk is always followed by a tag.               *)
(***************************************************************************)
Running(limit) == err = "" /\ Len(trace) < limit

\* the handler returns r from an event: r is installed and the event joins
\* the trace
Deliver(kind, name, attrs, chunk, r) ==
    /\ Install(r)
    /\ trace' = Append(trace, Event(kind, name, attrs, chunk, r))

StartEv(name, attrs, limit) ==
    /\ Running(limit)
    /\ Deliver("start", name, attrs, <<>>, startElement(H, name, attrs))
    /\ open' = Append(open, name)
    /\ UNCHANGED docs

EndEv(limit) ==
    /\ Running(limit)
    /\ open # <<>>
    /\ Deliver("end", Top(open), NoAttrs, <<>>, endElement(H, Top(open)))
    /\ open' = Pop(open)
    /\ UNCHANGED docs

CharsEv(chunk, limit) ==
    /\ Running(limit)
    /\ IF trace = <<>> THEN TRUE ELSE trace[Len(trace)].kind # "chars"
    /\ Deliver("chars", "", NoAttrs, chunk, characters(H, chunk))
    /\ UNCHANGED <<open, docs>>

(***************************************************************************)
(* The same process converts the next document: law_to_markdown is called  *)
(* again, as main's loop does, with a new StringIO and a new               *)
(* LawToMarkdown.  An exception of parser.parse is caught nowhere, so no   *)
(* document follows one that failed.                                       *)
(***************************************************************************)
NewDocument ==
    /\ err = ""
    /\ open = <<>>
    /\ trace # <<>>
    /\ docs < MaxDocs
    /\ docs' = docs + 1
    /\ self' = FreshSelf(self.yaml_header)
    /\ fileout' = <<>>
    /\ trace' = <<>>
    /\ UNCHANGED <<state, footnotes, err, open>>

(***************************************************************************)
(* main's loop over the documents of a batch, from the return of           *)
(* parser.parse for one document to the parse of the next.  law_to_markdown*)
(* reads handler.filename, an attribute that only write_big_header sets    *)
(* (an AttributeError for a document that got no Document header); main    *)
(* reads slug[0] (an IndexError for an empty file name); then it writes    *)
(* index.md and goes on to the next file.  No exception is caught: the     *)
(* first one ends main.  docs is MaxDocs + 1 once the loop has ended.      *)
(***************************************************************************)
main ==
    /\ err = ""
    /\ open = <<>>
    /\ trace # <<>>
    /\ docs <= MaxDocs
    /\ IF self.first_meta
       THEN err' = "AttributeError" /\ UNCHANGED <<state, footnotes, self, fileout, open, docs, trace>>
       ELSE IF self.filename = <<>>
       THEN err' = "IndexError" /\ UNCHANGED <<state, footnotes, self, fileout, open, docs, trace>>
       ELSE /\ docs' = docs + 1
            /\ self' = FreshSelf(self.yaml_header)
            /\ fileout' = <<>>
            /\ trace' = <<>>
            /\ UNCHANGED <<state, footnotes, err, open>>

\* the process before main's first document; law_to_markdown passes
\* DEFAULT_YAML_HEADER, or None under --no-yaml
InitWith(yamls) ==
    /\ state = <<None>>
    /\ footnotes = {}
    /\ self \in {FreshSelf(y) : y \in yamls}
    /\ fileout = <<>>
    /\ err = ""
    /\ open = <<>>
    /\ docs = 1
    /\ trace = <<>>


Init == InitWith({TRUE})

(***************************************************************************)
(* What the trace shows.                                                   *)
(***************************************************************************)
Events == 1..Len(trace)
\* what event i wrote to fileout
Wrote(i) == SubSeq(fileout, trace[i].from + 1, trace[i].to)
\* event i was handled outside an ignore span
Processed(i) == trace[i].ign = None
IsStart(i, name) == trace[i].kind = "start" /\ trace[i].name = name
IsEnd(i, name) == trace[i].kind = "end" /\ trace[i].name = name
\* event i raised the exception that ended the parse
Failed(i) == err # "" /\ i = Len(trace)
\* the last event before k that is the open of an element name
LastStart(k, name) ==
    CHOOSE j \in 1..k : /\ IsStart(j, name)
                        /\ \A l \in (j + 1)..k : ~IsStart(l, name)
\* the handler run over the events of the trace by a process that has
\* converted no document before
Alone(es, yaml) ==
    LET Step(h, e) == CASE e.kind = "start" -> startElement(h, e.name, e.attrs)
                        [] e.kind = "end" -> endElement(h, e.name)
                        [] OTHER -> characters(h, e.chunk)
        run[i \in 0..Len(es)] ==
            IF i = 0
            THEN FreshSelf(yaml) @@ [state |-> <<None>>, footnotes |-> {},
                                     fileout |-> <<>>, err |-> ""]
            ELSE Step(run[i - 1], es[i])
    IN run[Len(es)]

(***************************************************************************)
(* Nesting scenario: any well-nested sequence of these elements, among     *)
(* them tables and lists inside a footnotes container and inside metadata. *)
(***************************************************************************)
NestTags == {"text", "footnotes", "table", "dl", "metadaten", "p"}

NextNest ==
    \/ \E n \in NestTags : StartEv(n, NoAttrs, MaxEvents)
    \/ EndEv(MaxEvents)
    \/ CharsEv(<<"x">>, MaxEvents)

SpecNest == Init /\ [][NextNest]_vars

(***************************************************************************)
(* Ignore scenario: any well-nested sequence of the elements that begin    *)
(* and end ignore spans (fussnoten; fnr inside metadata; the enbez of a    *)
(* table of contents, until the close of textdaten) and of a paragraph.    *)
(***************************************************************************)
IgnoreTags == {"fussnoten", "fnr", "metadaten", "enbez", "textdaten", "p"}

IgnoreAttrs(n) == IF n = "fnr" THEN [ID |-> "1"] ELSE NoAttrs

IgnoreChunks == IF open = <<>> THEN {}
                ELSE IF Top(open) = "enbez" THEN {TOC}
                ELSE IF Top(open) = "p" THEN {<<"x">>}
                ELSE {}

NextIgnore ==
    \/ \E n \in IgnoreTags : StartEv(n, IgnoreAttrs(n), MaxEvents)
    \/ EndEv(MaxEvents)
    \/ \E c \in IgnoreChunks : CharsEv(c, MaxEvents)

SpecIgnore == Init /\ [][NextIgnore]_vars

(***************************************************************************)
(* Footnote scenario: documents of paragraphs with footnote references and *)
(* of footnotes containers with footnote bodies (direct character data, a  *)
(* bold element, or a p), converted one after the other by one process.    *)
(***************************************************************************)
FootChildren ==
    IF open = <<>> THEN {"p", "footnotes"}
    ELSE CASE Top(open) = "p" -> {"fnr"}
           [] Top(open) = "footnotes" -> {"footnote"}
           [] Top(open) = "footnote" -> IF trace[Len(trace)].kind = "start"
                                        THEN {"p", "b"} ELSE {}
           [] OTHER -> {}

FootAttrs(n) == IF n \in {"fnr", "footnote"} THEN {[ID |-> i] : i \in Ids} ELSE {NoAttrs}

FootChunks == IF open # <<>> /\ Top(open) \in {"p", "footnote", "b"} THEN {<<"x">>} ELSE {}

NextFoot ==
    \/ \E n \in FootChildren : \E a \in FootAttrs(n) : StartEv(n, a, MaxFootEvents)
    \/ EndEv(MaxFootEvents)
    \/ \E c \in FootChunks : CharsEv(c, MaxFootEvents)
    \/ NewDocument

SpecFoot == Init /\ [][NextFoot]_vars

(***************************************************************************)
(* Metadata scenario: documents of metadaten blocks with the fields the    *)
(* headers read (the enbez of a table of contents among them) and of       *)
(* textdaten elements, whose close ends the ignore span of a table of      *)
(* contents.                                                               *)
(***************************************************************************)
MetaFields == {"jurabk", "langue", "enbez", "titel"}

MetaChildren ==
    IF open = <<>> THEN {"metadaten", "textdaten"}
    ELSE IF Top(open) = "metadaten" THEN MetaFields
    ELSE {}

MetaChunks ==
    IF open = <<>> \/ trace[Len(trace)].kind # "start" THEN {}
    ELSE IF Top(open) = "enbez" THEN {TOC, <<"x">>}
    ELSE IF Top(open) \in MetaFields THEN {<<"x">>}
    ELSE {}

NextMeta ==
    \/ \E n \in MetaChildren : StartEv(n, NoAttrs, MaxMetaEvents)
    \/ EndEv(MaxMetaEvents)
    \/ \E c \in MetaChunks : CharsEv(c, MaxMetaEvents)

SpecMeta == Init /\ [][NextMeta]_vars

(***************************************************************************)
(* Table scenario: tables of colspec elements followed by one tbody of     *)
(* rows of entry cells; a cell holds character data (a letter or a         *)
(* vertical bar) and br elements.                                          *)
(***************************************************************************)
\* the current table has its tbody: every colspec of a table precedes it
HasBody ==
    \E i \in 1..Len(trace) :
        /\ trace[i].kind = "start" /\ trace[i].name = "tbody"
        /\ \A j \in i..Len(trace) : ~(trace[j].kind = "start" /\ trace[j].name = "table")

TableChildren ==
    IF open = <<>> THEN {"table"}
    ELSE CASE Top(open) = "table" -> IF HasBody THEN {} ELSE {"colspec", "tbody"}
           [] Top(open) = "tbody" -> {"row"}
           [] Top(open) = "row" -> {"entry"}
           [] Top(open) = "entry" -> {"br"}
           [] OTHER -> {}

TableChunks == IF open # <<>> /\ Top(open) = "entry" THEN {<<"x">>, <<"|">>} ELSE {}

NextTable ==
    \/ \E n \in TableChildren : StartEv(n, NoAttrs, MaxTableEvents)
    \/ EndEv(MaxTableEvents)
    \/ \E c \in TableChunks : CharsEv(c, MaxTableEvents)

SpecTable == Init /\ [][NextTable]_vars

(***************************************************************************)
(* Table cell scenario: one table of one tbody whose rows hold entry cells *)
(* with character data, br elements, paragraphs, images and lists.         *)
(***************************************************************************)
CellChildren ==
    IF open = <<>> THEN (IF trace = <<>> THEN {"table"} ELSE {})
    ELSE CASE Top(open) = "table" -> IF HasBody THEN {} ELSE {"tbody"}
           [] Top(open) = "tbody" -> {"row"}
           [] Top(open) = "row" -> {"entry"}
           [] Top(open) = "entry" -> {"br", "p", "img", "dl"}
           [] OTHER -> {}

CellAttrs(n) == IF n = "img" THEN [SRC |-> "a"] ELSE NoAttrs

CellChunks == IF open # <<>> /\ Top(open) \in {"entry", "p"} THEN {<<"x">>} ELSE {}

NextCell ==
    \/ \E n \in CellChildren : StartEv(n, CellAttrs(n), MaxCellEvents)
    \/ EndEv(MaxCellEvents)
    \/ \E c \in CellChunks : CharsEv(c, MaxCellEvents)

SpecCell == Init /\ [][NextCell]_vars

(***************************************************************************)
(* Metadata blocks with their fields in a fixed order, each field at most  *)
(* once.  The first block of a document holds jurabk and langue, the       *)
(* fields that write_big_header needs.                                     *)
(***************************************************************************)
\* the fields opened so far in the metadaten block that is open
BlockFields ==
    {trace[j].name : j \in {l \in (LastStart(Len(trace), "metadaten") + 1)..Len(trace) :
                               trace[l].kind = "start"}}

\* the fields of order that may follow those opened so far
Following(order) ==
    {order[k] : k \in {l \in 1..Len(order) : \A m \in l..Len(order) : order[m] \notin BlockFields}}

\* no metadaten block of the document has been closed yet
FirstBlock == \A i \in Events : ~IsEnd(i, "metadaten")

\* the document has fewer than n metadaten blocks after its first one
FewerBlocks(n) == Cardinality({i \in Events : IsStart(i, "metadaten")}) < n + 1

\* a field element was opened by the last event
FieldOpened == open # <<>> /\ trace[Len(trace)].kind = "start" /\ Top(open) # "metadaten"

RECURSIVE Ones(_)
Ones(n) == IF n <= 0 THEN <<>> ELSE <<"1">> \o Ones(n - 1)

(***************************************************************************)
(* Heading depth scenario: after the first block, metadaten blocks with    *)
(* or without a hierarchical numbering code (gliederungskennzahl) of       *)
(* several lengths or empty, with or without a titel.  The other fields    *)
(* always have a text.                                                     *)
(***************************************************************************)
CodeLens == {2, 3, MaxCode - 3, MaxCode}

DepthChildren ==
    IF open = <<>> THEN (IF FewerBlocks(MaxDepthBlocks) THEN {"metadaten"} ELSE {})
    ELSE IF Top(open) # "metadaten" THEN {}
    ELSE IF FirstBlock THEN Following(<<"jurabk", "langue">>)
    ELSE Following(<<"gliederungskennzahl", "titel">>)

DepthChunks ==
    IF ~FieldOpened THEN {}
    ELSE IF Top(open) = "gliederungskennzahl" THEN {Ones(n) : n \in CodeLens}
    ELSE {<<"x">>}

NextDepth ==
    \/ \E n \in DepthChildren : StartEv(n, NoAttrs, MaxDepthEvents)
    \/ (FieldOpened => Top(open) = "gliederungskennzahl") /\ EndEv(MaxDepthEvents)
    \/ \E c \in DepthChunks : CharsEv(c, MaxDepthEvents)

SpecDepth == Init /\ [][NextDepth]_vars

(***************************************************************************)
(* Heading title scenario: after the first block, metadaten blocks with    *)
(* any subset of the four fields that write_norm_header joins to a title,  *)
(* each with a text of its own or empty.                                   *)
(***************************************************************************)
TitleFields == <<"gliederungsbez", "gliederungstitel", "enbez", "titel">>

TitleText(f) ==
    CASE f = "gliederungsbez" -> <<"A">>
      [] f = "gliederungstitel" -> <<"B">>
      [] f = "enbez" -> <<"a">>
      [] f = "titel" -> <<"b">>
      [] OTHER -> <<"x">>

TitleChildren ==
    IF open = <<>> THEN (IF FewerBlocks(MaxTitleBlocks) THEN {"metadaten"} ELSE {})
    ELSE IF Top(open) # "metadaten" THEN {}
    ELSE IF FirstBlock THEN Following(<<"jurabk", "langue">>)
    ELSE Following(TitleFields)

TitleChunks == IF FieldOpened THEN {TitleText(Top(open))} ELSE {}

NextTitle ==
    \/ \E n \in TitleChildren : StartEv(n, NoAttrs, MaxTitleEvents)
    \/ EndEv(MaxTitleEvents)
    \/ \E c \in TitleChunks : CharsEv(c, MaxTitleEvents)

SpecTitle == Init /\ [][NextTitle]_vars

(***************************************************************************)
(* Document header scenario: one metadaten block with any subset of the    *)
(* fields jurabk, langue, ausfertigung-datum, periodikum and zitstelle,    *)
(* followed by a paragraph; front matter written (DEFAULT_YAML_HEADER) or  *)
(* suppressed (--no-yaml).                                                 *)
(***************************************************************************)
HeadFields == <<"jurabk", "langue", "ausfertigung-datum", "periodikum", "zitstelle">>

HeadChildren ==
    IF open = <<>>
    THEN IF trace = <<>> THEN {"metadaten"}
         ELSE IF \A i \in Events : ~IsStart(i, "p") THEN {"p"} ELSE {}
    ELSE IF Top(open) = "metadaten" THEN Following(HeadFields)
    ELSE {}

HeadChunks == IF FieldOpened THEN {<<"x">>} ELSE {}

NextHead ==
    \/ \E n \in HeadChildren : StartEv(n, NoAttrs, MaxHeadEvents)
    \/ EndEv(MaxHeadEvents)
    \/ \E c \in HeadChunks : CharsEv(c, MaxHeadEvents)

SpecHead == InitWith({TRUE, FALSE}) /\ [][NextHead]_vars

(***************************************************************************)
(* Batch scenario: main converts MaxDocs documents, each a metadaten block *)
(* with or without jurabk and langue, paragraphs, or both.                 *)
(***************************************************************************)
BatchChildren ==
    IF open = <<>>
    THEN IF trace = <<>> THEN {"metadaten", "p"} ELSE {"p"}
    ELSE IF Top(open) = "metadaten" THEN Following(<<"jurabk", "langue">>)
    ELSE {}

BatchChunks == IF FieldOpened THEN {<<"x">>} ELSE {}

NextBatch ==
    \/ \E n \in BatchChildren : docs <= MaxDocs /\ StartEv(n, NoAttrs, MaxBatchEvents)
    \/ EndEv(MaxBatchEvents)
    \/ \E c \in BatchChunks : CharsEv(c, MaxBatchEvents)
    \/ main

SpecBatch == Init /\ [][NextBatch]_vars

(***************************************************************************)
(* List scenario: dl containers of dt and dd elements, a dt holding the    *)
(* marker 'a)', a dd holding the text 'Grants X.' and nested containers.   *)
(***************************************************************************)
Marker == <<"a", ")">>
Grants == <<"G", "r", "a", "n", "t", "s", SP, "X", ".">>

ListChildren ==
    IF open = <<>> THEN {"dl"}
    ELSE CASE Top(open) = "dl" -> {"dt", "dd"}
           [] Top(open) = "dd" -> {"dl"}
           [] OTHER -> {}

ListChunks ==
    IF ~FieldOpened THEN {}
    ELSE CASE Top(open) = "dt" -> {Marker}
           [] Top(open) = "dd" -> {Grants}
           [] OTHER -> {}

NextList ==
    \/ \E n \in ListChildren : StartEv(n, NoAttrs, MaxListEvents)
    \/ EndEv(MaxListEvents)
    \/ \E c \in ListChunks : CharsEv(c, MaxListEvents)

SpecList == Init /\ [][NextList]_vars

(***************************************************************************)
(* Escape scenario: paragraphs with every chunk of character data of up to *)
(* MaxChunk characters over letters (the letter s among them), the two     *)
(* emphasis characters and the space.                                      *)
(***************************************************************************)
EscapeAlphabet == {"a", "s", "*", "_", SP}

EscapeChunks == UNION {[1..n -> EscapeAlphabet] : n \in 1..MaxChunk}

NextEscape ==
    \/ StartEv("p", NoAttrs, MaxEscapeEvents)
    \/ EndEv(MaxEscapeEvents)
    \/ \E c \in EscapeChunks : CharsEv(c, MaxEscapeEvents)

SpecEscape == Init /\ [][NextEscape]_vars

(***************************************************************************)
(* Column scenario: one table whose colspec elements have no align         *)
(* attribute or one of the values center, justify, left and right,         *)
(* followed by a tbody of rows of entry cells.                             *)
(***************************************************************************)
Aligns == {"center", "justify", "left", "right"}

ColAttrs(n) == IF n = "colspec" THEN {NoAttrs} \cup {[align |-> a] : a \in Aligns} ELSE {NoAttrs}

ColChildren ==
    IF open = <<>> THEN (IF trace = <<>> THEN {"table"} ELSE {})
    ELSE CASE Top(open) = "table" -> IF HasBody THEN {} ELSE {"colspec", "tbody"}
           [] Top(open) = "tbody" -> {"row"}
           [] Top(open) = "row" -> {"entry"}
           [] OTHER -> {}

ColChunks == IF open # <<>> /\ Top(open) = "entry" THEN {<<"x">>} ELSE {}

NextCol ==
    \/ \E n \in ColChildren : \E a \in ColAttrs(n) : StartEv(n, a, MaxColEvents)
    \/ EndEv(MaxColEvents)
    \/ \E c \in ColChunks : CharsEv(c, MaxColEvents)

SpecCol == Init /\ [][NextCol]_vars

(***************************************************************************)
(* Entry scenario: a text element with entry elements of its own (list     *)
(* items) and with tables whose rows hold entry elements (cells); an entry *)
(* holds character data and lists of dt and dd elements, a dt with or      *)
(* without index text and with or without a dd after it.                   *)
(***************************************************************************)
EntryChildren ==
    IF open = <<>> THEN (IF trace = <<>> THEN {"text"} ELSE {})
    ELSE CASE Top(open) = "text" -> {"entry", "table"}
           [] Top(open) = "table" -> IF HasBody THEN {} ELSE {"tbody"}
           [] Top(open) = "tbody" -> {"row"}
           [] Top(open) = "row" -> {"entry"}
           [] Top(open) = "entry" -> {"dl"}
           [] Top(open) = "dl" -> {"dt", "dd"}
           [] OTHER -> {}

EntryChunks ==
    IF ~FieldOpened THEN {}
    ELSE CASE Top(open) = "dt" -> {<<"a">>}
           [] Top(open) \in {"dd", "entry"} -> {<<"x">>}
           [] OTHER -> {}

NextEntry ==
    \/ \E n \in EntryChildren : StartEv(n, NoAttrs, MaxEntryEvents)
    \/ EndEv(MaxEntryEvents)
    \/ \E c \in EntryChunks : CharsEv(c, MaxEntryEvents)

SpecEntry == Init /\ [][NextEntry]_vars

(***************************************************************************)
(* Emphasis scenario: underline and bold elements with the character data  *)
(* 'y', after the character data 'x' or after none, in a paragraph, in a   *)
(* list item, in a table cell and in a footnote body.                      *)
(***************************************************************************)
EmphTags == {"u", "b"}

EmphChildren ==
    IF open = <<>> THEN {"p", "dl", "table", "footnotes"}
    ELSE CASE Top(open) = "dl" -> {"dd"}
           [] Top(open) = "table" -> IF HasBody THEN {} ELSE {"tbody"}
           [] Top(open) = "tbody" -> {"row"}
           [] Top(open) = "row" -> {"entry"}
           [] Top(open) = "footnotes" -> {"footnote"}
           [] Top(open) \in {"p", "dd", "entry", "footnote"} -> EmphTags
           [] OTHER -> {}

EmphAttrs(n) == IF n = "footnote" THEN [ID |-> "1"] ELSE NoAttrs

EmphChunks ==
    IF ~FieldOpened THEN {}
    ELSE CASE Top(open) \in EmphTags -> {<<"y">>}
           [] Top(open) \in {"p", "dd", "entry", "footnote"} -> {<<"x">>}
           [] OTHER -> {}

NextEmph ==
    \/ \E n \in EmphChildren : StartEv(n, EmphAttrs(n), MaxEmphEvents)
    \/ EndEv(MaxEmphEvents)
    \/ \E c \in EmphChunks : CharsEv(c, MaxEmphEvents)

SpecEmph == Init /\ [][NextEmph]_vars

(***************************************************************************)
(* Wrap scenario: lists, nested or not, of items with a text of two words  *)
(* that is longer than the wrap width; an item has no index element or one *)
(* with a marker of one, two or four characters.                           *)
(***************************************************************************)
\* a text that wrap breaks into the two lines 'x...x' and 'y...y'
Words ==
    Times(<<"x">>, WrapWidth \div 2 + 1) \o <<SP>> \o Times(<<"y">>, WrapWidth \div 2 + 1)

Markers == {<<"a">>, <<"a", ")">>, <<"(", "a", "a", ")">>}

WrapChildren ==
    IF open = <<>> THEN {"dl"}
    ELSE CASE Top(open) = "dl" -> {"dt", "dd"}
           [] Top(open) = "dd" -> {"dl"}
           [] OTHER -> {}

WrapChunks ==
    IF ~FieldOpened THEN {}
    ELSE CASE Top(open) = "dt" -> Markers
           [] Top(open) = "dd" -> {Words}
           [] OTHER -> {}

NextWrap ==
    \/ \E n \in WrapChildren : StartEv(n, NoAttrs, MaxWrapEvents)
    \/ EndEv(MaxWrapEvents)
    \/ \E c \in WrapChunks : CharsEv(c, MaxWrapEvents)

SpecWrap == Init /\ [][NextWrap]_vars

(***************************************************************************)
(* Metadata field scenario: metadaten blocks whose fields hold character   *)
(* data and nested elements, one that startElement knows (b) and one that  *)
(* it does not (sup).                                                      *)
(***************************************************************************)
InlineTags == {"b", "sup"}

FieldChildren ==
    IF open = <<>> THEN {"metadaten"}
    ELSE IF Top(open) = "metadaten" THEN Following(<<"jurabk", "langue", "titel">>)
    ELSE IF Top(open) \in InlineTags THEN {}
    ELSE InlineTags

FieldChunks == IF FieldOpened THEN {<<"x">>} ELSE {}

NextField ==
    \/ \E n \in FieldChildren : StartEv(n, NoAttrs, MaxFieldEvents)
    \/ EndEv(MaxFieldEvents)
    \/ \E c \in FieldChunks : CharsEv(c, MaxFieldEvents)

SpecField == Init /\ [][NextField]_vars

(***************************************************************************)
(* Properties.                                                             *)
(***************************************************************************)
\* the events so far form a complete document that was converted without error
Complete == open = <<>> /\ trace # <<>> /\ err = ""

\* the events of the current document as the parser delivered them
Delivered == [i \in Events |-> [kind |-> trace[i].kind, name |-> trace[i].name,
                                attrs |-> trace[i].attrs, chunk |-> trace[i].chunk]]

\* C1: converting a document with a fresh LawToMarkdown after other
\* documents were converted in the same process gives the output and the
\* final state of converting it alone: the context stack, the footnote
\* registry, the output, the exception and every attribute of the instance
\* equal those of a process that has converted only this document.
C1_NoLeakAcrossDocuments ==
    docs > 1 => Alone(Delivered, self.yaml_header) = H

\* C3: after any well-nested sequence of events the context stack is not
\* empty and the initial top-level context (None) is still its bottom.
C3_StackNeverEmpty == state # <<>> /\ Head(state) = None

\* what the handler wrote after event i
WroteAfter(i) == SubSeq(fileout, trace[i].to + 1, Len(fileout))

\* the elements open after event i
OpenAfter(i) ==
    Cardinality({j \in 1..i : trace[j].kind = "start"})
        - Cardinality({j \in 1..i : trace[j].kind = "end"})

(***************************************************************************)
(* Headers (C2).                                                           *)
(***************************************************************************)
\* a Document header: only write_big_header writes the 'Title: ' line
IsDocHeader(w) == InSeq("Title: ", w)
\* a norm header: a blank line, then the line of '#', title
IsNormHeader(w) == Len(w) > 2 /\ w[1] = NL /\ w[2] = "#" /\ ~IsDocHeader(w)

MetaEnds == {i \in Events : IsEnd(i, "metadaten")}
\* the closes of metadaten that the handler processed outside an ignore span
MetaCloses == {i \in MetaEnds : Processed(i)}

Refs == {i \in Events : IsStart(i, "fnr") /\ Processed(i) /\ trace[i].top # "meta"}
RefId(i) == trace[i].attrs.ID
FirstRef(i) == \A j \in Refs : RefId(j) = RefId(i) => j >= i

\* C4: within one document the anchor of an id is written exactly once, by
\* the first reference to the id; a later reference writes no anchor; no
\* reference raises an error.
C4_AnchorAtFirstReference ==
    \A i \in Refs :
        /\ ~Failed(i)
        /\ Count(Anchor(RefId(i)), Wrote(i)) = IF FirstRef(i) THEN 1 ELSE 0

IsAnchor(t) == \E id \in Ids : t = Anchor(id)
\* the anchors of the output, in the order of the output
Anchors == SelectSeq(fileout, IsAnchor)
\* the first reference to the id of anchor a
FirstRefOf(a) == CHOOSE i \in Refs : Anchor(RefId(i)) = a /\ FirstRef(i)

\* the footnote elements opened directly in a footnotes container
Bodies(id) ==
    {i \in Events : /\ IsStart(i, "footnote") /\ Processed(i)
                    /\ trace[i].top = "footnotes" /\ trace[i].attrs.ID = id}
\* those of them that an element close has followed
Labelled(id) == {i \in Bodies(id) : \E k \in (i + 1)..Len(trace) : trace[k].kind = "end"}

AnchorsInFirstReferenceOrder ==
    /\ \A p \in 1..Len(Anchors) : \E i \in Refs : Anchor(RefId(i)) = Anchors[p]
    /\ \A p, q \in 1..Len(Anchors) :
           p < q => FirstRefOf(Anchors[p]) < FirstRefOf(Anchors[q])

C6_LabelBeforeBody ==
    \A id \in Ids : \A i \in Bodies(id) :
        LET text == LStripSet(WroteAfter(i), WS)
        IN text # <<>> => Head(text) = Label(id)

(***************************************************************************)
(* Ignore spans (C7, C8).                                                  *)
(***************************************************************************)
\* the event of this step
Last == trace'[Len(trace')]

\* C7: while ignore_until is set, an event leaves the context stack, the
\* footnote registry, the output and every attribute of the instance but
\* no_tag and ignore_until as they are and raises nothing; the close event
\* of the name ignore_until holds clears ignore_until, and no other event
\* changes it.
C7_IgnoreSpanFrame ==
    [][(self.ignore_until # None /\ docs' = docs) =>
           /\ state' = state
           /\ footnotes' = footnotes
           /\ fileout' = fileout
           /\ err' = err
           /\ \A k \in SelfFields \ {"no_tag", "ignore_until"} : self'[k] = self[k]
           /\ self'.ignore_until =
                  IF Last.kind = "end" /\ Last.name = self.ignore_until
                  THEN None ELSE self.ignore_until]_vars

\* the events that arrived inside an ignore span
Swallowed == {i \in Events : ~Processed(i)}

\* an ignore span that swallowed an open, character data and the close of
\* another element was ended by its close event
C7_Witness ==
    /\ self.ignore_until = None
    /\ \E i \in Swallowed : trace[i].kind = "start"
    /\ \E i \in Swallowed : trace[i].kind = "chars"
    /\ \E i \in Swallowed : trace[i].kind = "end" /\ trace[i].name # trace[i].ign
    /\ \E i \in Swallowed : trace[i].kind = "end" /\ trace[i].name = trace[i].ign

\* the event that began the ignore span in which event k arrived
Trigger(k) == CHOOSE j \in 1..k : Processed(j) /\ \A l \in (j + 1)..k : ~Processed(l)

\* C8: an ignore span that the open of an element began is ended by the
\* close of that element only: the close of an element of the same name
\* nested in the span does not end it (a document with such an element
\* ends in an error instead).
C8_SpanEndsAtOwnClose ==
    \A k \in Swallowed :
        (trace[k].kind = "end" /\ trace[k].name = trace[k].ign
             /\ trace[Trigger(k)].kind = "start")
        => OpenAfter(k) = OpenAfter(Trigger(k)) - 1

(***************************************************************************)
(* Table rows (C9, C10).                                                   *)
(***************************************************************************)
\* the closes of the body rows
RowEnds == {k \in Events : IsEnd(k, "row") /\ Processed(k) /\ trace[k].top \in TableStates}
\* the entry cells of the row that event k closes
Entries(k) == Cardinality({i \in LastStart(k, "row")..k : IsStart(i, "entry")})
\* the columns that the colspec elements of the table of event k declare
Columns(k) == Cardinality({i \in LastStart(k, "table")..k : IsStart(i, "colspec")})

EndsWith(w, t) == Len(w) >= Len(t) /\ SubSeq(w, Len(w) - Len(t) + 1, Len(w)) = t

\* C9: a body row with one entry per column is written with a '|' at its
\* end and with as many cell separators as the table has columns: one '|'
\* before each cell and the one at the end, as in the separator line.
C9_RowHasColumnCountSeparators ==
    \A k \in RowEnds :
        Entries(k) = Columns(k) =>
            /\ EndsWith(Wrote(k), <<"|", NL>>)
            /\ Count("|", Wrote(k)) = Columns(k) + 1

\* C10: the close of a body row whose number of entry cells differs from
\* the number of columns ends the conversion in an error and writes no row.
C10_RowMismatchIsFatal ==
    \A k \in RowEnds :
        Entries(k) # Columns(k) => Failed(k) /\ Wrote(k) = <<>>

(***************************************************************************)
(* Table cells (C11).                                                      *)
(***************************************************************************)
\* the occurrences of the text p in s
Occurrences(p, s) == Len(Split(s, p)) - 1

\* the closes of br that endElement handled inside the row that event k closes
Breaks(k) ==
    {i \in LastStart(k, "row")..k : IsEnd(i, "br") /\ Processed(i) /\ trace[i].top \in CellStates}

\* C11: a body row is one physical line of the output.  Between the open
\* and the close of the row nothing with a newline is written, the close
\* of the row writes one line (a single newline, at its end), and every br
\* closed inside a cell of the row is a '<br>' of that line.
C11_RowIsOneLine ==
    \A k \in RowEnds :
        /\ \A i \in LastStart(k, "row")..(k - 1) : ~InSeq(NL, Wrote(i))
        /\ Count(NL, Wrote(k)) = 1
        /\ EndsWith(Wrote(k), <<NL>>)
        /\ Occurrences(BR, Wrote(k)) >= Cardinality(Breaks(k))

(***************************************************************************)
(* Norm headers (C12, C13, C14).                                           *)
(***************************************************************************)
\* the processed closes of metadaten after the first one: those that
\* endElement hands to write_norm_header
NormCloses == {i \in MetaCloses : \E j \in MetaCloses : j < i}

\* the opens of the field name in the metadaten block that event i closes
FieldStarts(i, name) ==
    {j \in LastStart(i, "metadaten")..i : IsStart(j, name) /\ Processed(j)}

HasField(i, name) == FieldStarts(i, name) # {}

\* the character data of the first field name of the block that event i closes
FieldChunk(i, name) ==
    LET j == CHOOSE l \in FieldStarts(i, name) : \A m \in FieldStarts(i, name) : l <= m
    IN IF trace[j + 1].kind = "chars" THEN trace[j + 1].chunk ELSE <<>>

RECURSIVE HashRun(_)
HashRun(w) == IF w # <<>> /\ Head(w) = "#" THEN 1 + HashRun(Tail(w)) ELSE 0

\* the depth of the heading that w is: the '#' after its blank line
Depth(w) == HashRun(Tail(w))

Coded(i) == HasField(i, "gliederungskennzahl")

\* floor(len(code) / 3) + 1 for the code of the block that event i closes
CodeDepth(i) == Len(FieldChunk(i, "gliederungskennzahl")) \div 3 + 1

\* the norm headers that were emitted
Headings == {i \in NormCloses : Wrote(i) # <<>>}

\* C12: no norm header ends the conversion in an error; every emitted norm
\* heading has a depth in 1..6, and the heading of a block with a
\* hierarchical numbering code has the depth min(6, floor(len(code)/3) + 1).
C12_DepthFromCode ==
    /\ \A i \in NormCloses : ~Failed(i)
    /\ \A i \in Headings :
           /\ IsNormHeader(Wrote(i))
           /\ Depth(Wrote(i)) \in 1..6
           /\ Coded(i) => Depth(Wrote(i)) = Min(6, CodeDepth(i))

\* headings of a code of the greatest length (clamped to depth 6) and of a
\* code of three characters (depth 2) were emitted
C12_Witness ==
    \E i, j \in Headings :
        /\ Coded(i) /\ Len(FieldChunk(i, "gliederungskennzahl")) = MaxCode
        /\ Depth(Wrote(i)) = 6
        /\ Coded(j) /\ Len(FieldChunk(j, "gliederungskennzahl")) = 3
        /\ Depth(Wrote(j)) = 2

\* the norm blocks with a code before event i
CodedBefore(i) == {j \in NormCloses : j < i /\ Coded(j)}

\* the depth remembered when event i arrives: that of the code of the last
\* block with a code, 1 (the class attribute) before the first such block
Remembered(i) ==
    IF CodedBefore(i) = {} THEN 1
    ELSE CodeDepth(CHOOSE j \in CodedBefore(i) : \A l \in CodedBefore(i) : l <= j)

\* C13: the heading of a block without a code has the depth
\* min(6, remembered + 1); within a run of headings without code the depth
\* never decreases; the heading of a block with a code has the depth of
\* that code, whatever the run before it.
C13_CodelessDepth ==
    /\ \A i \in Headings :
           Depth(Wrote(i)) = IF Coded(i) THEN Min(6, CodeDepth(i))
                             ELSE Min(6, Remembered(i) + 1)
    /\ \A i, j \in Headings :
           (i < j /\ \A l \in NormCloses : (i <= l /\ l <= j) => ~Coded(l))
               => Depth(Wrote(i)) <= Depth(Wrote(j))

\* a heading with a code of three characters (depth 2) is followed by a
\* run of two headings without code, both of depth 3
C13_Witness ==
    \E i, j, k \in Headings :
        /\ i < j /\ j < k
        /\ Coded(i) /\ ~Coded(j) /\ ~Coded(k)
        /\ \A l \in NormCloses : (i < l /\ l < k) => l = j
        /\ Depth(Wrote(i)) = 2 /\ Depth(Wrote(j)) = 3 /\ Depth(Wrote(k)) = 3

\* the texts of those of the fields that the block closed by event i
\* holds, joined in the order of fields
RECURSIVE Joined(_, _)
Joined(i, fields) ==
    IF fields = <<>> THEN <<>>
    ELSE (IF HasField(i, Head(fields)) THEN FieldChunk(i, Head(fields)) ELSE <<>>)
             \o Joined(i, Tail(fields))

IsLetter(c) == c \notin {NL, SP, "#", "-"}

\* C14: the heading of a norm block holds the texts of those of the fields
\* gliederungsbez, gliederungstitel, enbez and titel that the block has, in
\* this order, and only separators besides; a block with none of them
\* gets no heading.
C14_TitleJoinsPresentFields ==
    \A i \in NormCloses :
        /\ ~Failed(i)
        /\ SelectSeq(Wrote(i), IsLetter) = Joined(i, TitleFields)
        /\ (\A k \in 1..Len(TitleFields) : ~HasField(i, TitleFields[k])) => Wrote(i) = <<>>

(***************************************************************************)
(* Indentation (C15).                                                      *)
(***************************************************************************)
\* indent_level when event i arrives
LevelBefore(i) == IF i = 1 THEN 0 ELSE trace[i - 1].level

\* the closes of list containers
ListEnds == {k \in Events : IsEnd(k, "dl") /\ Processed(k)}

\* the open event of the element that event k closes
OpenOf(k) ==
    CHOOSE j \in 1..k : /\ trace[j].kind = "start"
                        /\ OpenAfter(j) = OpenAfter(k) + 1
                        /\ \A l \in j..(k - 1) : OpenAfter(l) > OpenAfter(k)

\* C15: the open of a list container raises the indent level by one and
\* its close lowers it by one, the level after the close is the level
\* before the open, and the level is never negative, wherever the
\* container stands.
C15_IndentBalanced ==
    /\ \A i \in Events : trace[i].level >= 0
    /\ \A i \in Events :
           (IsStart(i, "dl") /\ Processed(i)) => trace[i].level = LevelBefore(i) + 1
    /\ \A k \in ListEnds :
           /\ trace[k].level = LevelBefore(k) - 1
           /\ trace[k].level = LevelBefore(OpenOf(k))

(***************************************************************************)
(* Document header (C16, C18).                                             *)
(***************************************************************************)
\* the lines of a front-matter block
FrontMatter == {"---", "Title: ", "origslug: ", "jurabk: ", "slug: ", "layout: default"}

\* C16: with front matter suppressed the output holds no line of a
\* front-matter block: no Title, origslug, jurabk or slug line and no
\* '---'.
C16_NoFrontMatterWhenSuppressed ==
    ~self.yaml_header => \A i \in 1..Len(fileout) : fileout[i] \notin FrontMatter

\* the first processed close of a metadaten block, whose block holds the
\* two fields a Document header cannot do without
HeaderCloses ==
    {i \in MetaCloses \ NormCloses : HasField(i, "jurabk") /\ HasField(i, "langue")}

\* C18: the close of a first metadaten block with jurabk and langue raises
\* no error and writes the Document header, whichever of the optional
\* fields are missing; the header has the 'Ausfertigungsdatum' line exactly
\* when the block has an ausfertigung-datum, and the 'Fundstelle' line
\* exactly when it has both periodikum and zitstelle; no later event of
\* the document fails.
C18_OptionalMetadataOmitted ==
    \A i \in HeaderCloses :
        /\ err = ""
        /\ IsDocHeader(Wrote(i))
        /\ InSeq("#", Wrote(i))
        /\ InSeq("Ausfertigungsdatum", Wrote(i)) <=> HasField(i, "ausfertigung-datum")
        /\ InSeq("Fundstelle", Wrote(i))
               <=> (HasField(i, "periodikum") /\ HasField(i, "zitstelle"))

\* a complete document whose block has a periodikum but neither enactment
\* date nor zitstelle: the header has neither line, and the paragraph after
\* it was written
C18_Witness ==
    /\ Complete
    /\ \E i \in HeaderCloses :
           /\ ~HasField(i, "ausfertigung-datum")
           /\ HasField(i, "periodikum") /\ ~HasField(i, "zitstelle")
           /\ IsDocHeader(Wrote(i))
           /\ ~InSeq("Ausfertigungsdatum", Wrote(i)) /\ ~InSeq("Fundstelle", Wrote(i))
           /\ InSeq("x", WroteAfter(i))

(***************************************************************************)
(* Batch conversion (C17).                                                 *)
(***************************************************************************)
\* C17: a document that fails does not end the run: while documents of
\* the batch remain after a failure, main can still take a step.
C17_FailureIsIsolated ==
    (err # "" /\ docs < MaxDocs) => ENABLED NextBatch

(***************************************************************************)
(* List items (C19).                                                       *)
(***************************************************************************)
\* the closes of a dd with the text 'Grants X.' that directly follows a dt
\* with the marker 'a)'
Pairs ==
    {k \in Events :
        /\ k >= 6
        /\ IsStart(k - 5, "dt") /\ trace[k - 4].chunk = Marker /\ IsEnd(k - 3, "dt")
        /\ IsStart(k - 2, "dd") /\ trace[k - 1].chunk = Grants /\ IsEnd(k, "dd")}

\* what the six events of the pair closed by event k wrote
PairText(k) == SubSeq(fileout, trace[k - 5].from + 1, trace[k].to)

\* the list containers open when event k arrives
Lists(k) ==
    Cardinality({j \in 1..k : IsStart(j, "dl")}) - Cardinality({j \in 1..k : IsEnd(j, "dl")})

\* C19: a dt 'a)' with its dd 'Grants X.' writes the line 'a) Grants X.'
\* (marker, one space, text), indented one level for each list container
\* it stands in.
C19_ListLine ==
    \A k \in Pairs :
        /\ ~Failed(k)
        /\ IsPrefix(Times(indent_by, Lists(k)) \o Marker \o <<SP>> \o Grants \o <<NL>>,
                    PairText(k))

(***************************************************************************)
(* Escaping (C20).                                                         *)
(***************************************************************************)
\* the positions of the emphasis characters of s, in order
EmphAt(s) == SelectSeq([i \in 1..Len(s) |-> i], LAMBDA i : s[i] \in Emph)

\* the character at position p of s has a non-space neighbour
Adjacent(s, p) ==
    \/ p > 1 /\ NonSpace(s[p - 1])
    \/ p < Len(s) /\ NonSpace(s[p + 1])

IsText(c) == c # BSL

\* C20: after a chunk of character data the accumulated text is the chunk
\* (stripped) with backslashes added and nothing else changed; every '*'
\* and '_' of the chunk that has a non-space neighbour, whatever character
\* that is, has a backslash before it, and none has two.
C20_EmphEscaped ==
    (trace # <<>> /\ trace[Len(trace)].kind = "chars") =>
        LET c == Strip(trace[Len(trace)].chunk)
            r == self.current_text
        IN /\ SelectSeq(r, IsText) = c
           /\ \A k \in 1..Len(EmphAt(c)) :
                  Adjacent(c, EmphAt(c)[k]) =>
                      (EmphAt(r)[k] > 1 /\ r[EmphAt(r)[k] - 1] = BSL)
           /\ \A q \in 1..Len(r) :
                  (r[q] \in Emph /\ q > 2) => ~(r[q - 1] = BSL /\ r[q - 2] = BSL)

(***************************************************************************)
(* Columns (C21).                                                          *)
(***************************************************************************)
\* the colspec events of the table so far
Colspecs == {i \in Events : IsStart(i, "colspec") /\ Processed(i)}

\* the separator cell of a colspec: left-justified for align 'justify',
\* centred in every other case
SeparatorCell(attrs) ==
    IF "align" \in DOMAIN attrs /\ attrs.align = "justify"
    THEN <<SP, ":", "-", "-", "-", "-", SP, "|">>
    ELSE <<SP, ":", "-", "-", "-", ":", SP, "|">>

\* the separator cells of the colspec events from event i on
RECURSIVE SeparatorCells(_)
SeparatorCells(i) ==
    IF i > Len(trace) THEN <<>>
    ELSE (IF i \in Colspecs THEN SeparatorCell(trace[i].attrs) ELSE <<>>)
             \o SeparatorCells(i + 1)

\* C21: after any sequence of colspec events of a table the header row and
\* the separator row have one cell per colspec each: the header row is
\* '| ' and a placeholder cell per colspec, the separator row '|' and per
\* colspec ' :---- |' for align 'justify' and ' :---: |' in every other
\* case.
C21_HeaderAndSeparatorCells ==
    Colspecs # {} =>
        /\ self.table_header = <<"|", SP>> \o Times(Spaces(6) \o <<"|", SP>>, Cardinality(Colspecs))
        /\ self.head_separator = <<"|">> \o SeparatorCells(1)
        /\ Count("|", self.table_header) = Count("|", self.head_separator)

(***************************************************************************)
(* Entries (C22).                                                          *)
(***************************************************************************)
\* the closes of entry elements
EntryEnds == {k \in Events : IsEnd(k, "entry") /\ Processed(k)}

\* event i found a table context on top of the stack: an entry is a cell
AsCell(i) == trace[i].top \in TableStates

\* C22: an entry is a cell at both of its ends or a list item at both.  The
\* close of an entry opened as a cell finds a table context, writes nothing
\* and leaves the indent level alone; the close of an entry opened as a
\* list item (its open raised the indent level) finds no table context and
\* lowers the indent level to what it was before the open; neither raises
\* an error.
C22_EntryClosedAsOpened ==
    \A k \in EntryEnds :
        /\ ~Failed(k)
        /\ AsCell(k) <=> AsCell(OpenOf(k))
        /\ AsCell(OpenOf(k)) => (Wrote(k) = <<>> /\ trace[k].level = LevelBefore(k))
        /\ ~AsCell(OpenOf(k)) =>
               /\ trace[OpenOf(k)].level = LevelBefore(OpenOf(k)) + 1
               /\ trace[k].level = LevelBefore(OpenOf(k))

(***************************************************************************)
(* Emphasis (C23).                                                         *)
(***************************************************************************)
\* the markers of an underline and of a bold element
Stars(name) == IF name = "b" THEN <<"*", "*">> ELSE <<"*">>

\* the character data between the open of the element that event k closes
\* and event k
Own(k) == IF trace[k - 1].kind = "chars" THEN trace[k - 1].chunk ELSE <<>>

\* C23: the close of an underline element adds ' *text* ' and the close of
\* a bold element ' **text** ' to the text collected so far, text being the
\* character data between the open and the close of the element: what was
\* collected before the open stands before the markers, in every context.
C23_EmphasisHoldsOwnText ==
    \A k \in Events :
        (k = Len(trace) /\ trace[k].kind = "end" /\ trace[k].name \in EmphTags /\ Processed(k)) =>
            /\ ~Failed(k)
            /\ EndsWith(self.text,
                        <<SP>> \o Stars(trace[k].name) \o Own(k) \o Stars(trace[k].name) \o <<SP>>)

(***************************************************************************)
(* List markers (C24).                                                     *)
(***************************************************************************)
\* the opens of the bodies of list items
ItemStarts == {i \in Events : IsStart(i, "dd") /\ Processed(i)}

\* the body opened by event i follows an index element
Indexed(i) == i > 1 /\ IsEnd(i - 1, "dt")

\* the marker written for the item whose body event i opens: what the close
\* of its index element and the open of its body wrote, indentation aside
MarkerOf(i) ==
    StripSet((IF Indexed(i) THEN Wrote(i - 1) ELSE <<>>) \o Wrote(i), {SP})

\* the character data of the index element closed by event k
IndexText(k) == Own(k)

\* C24: the marker of an item without an index element is '*', the marker
\* of an item with one is the character data of that index element, and
\* '*' when the index element is empty; no error is raised.
C24_MarkerFromIndex ==
    \A i \in ItemStarts :
        /\ ~Failed(i)
        /\ MarkerOf(i) = IF Indexed(i) /\ IndexText(i - 1) # <<>> THEN IndexText(i - 1)
                         ELSE <<"*">>

(***************************************************************************)
(* Wrapped list items (C25).                                               *)
(***************************************************************************)
\* the closes of the item bodies that hold the text of two lines
WrappedItems ==
    {k \in Events : /\ k >= 3 /\ IsEnd(k, "dd") /\ Processed(k)
                    /\ trace[k - 1].chunk = Words /\ IsStart(k - 2, "dd")}

\* the lines written for the item that event k closes, from its marker on
ItemLines(k) ==
    Split(SubSeq(fileout, trace[IF Indexed(k - 2) THEN k - 3 ELSE k - 2].from + 1, trace[k].to),
          <<NL>>)

\* the column of the first c in line (0 when it has none)
FirstAt(line, c) ==
    IF InSeq(c, line) THEN CHOOSE i \in 1..Len(line) : line[i] = c /\ ~InSeq(c, SubSeq(line, 1, i - 1))
    ELSE 0

\* C25: the text flushed after a list marker begins on the line of the
\* marker, and its continuation line is indented so that it begins in the
\* column of the first character of the text, whatever the length of the
\* marker.
C25_ContinuationAligned ==
    \A k \in WrappedItems :
        /\ ~Failed(k)
        /\ Len(ItemLines(k)) >= 2
        /\ FirstAt(ItemLines(k)[1], "x") > 1
        /\ StripSet(SubSeq(ItemLines(k)[1], 1, FirstAt(ItemLines(k)[1], "x") - 1), {SP}) # <<>>
        /\ FirstAt(ItemLines(k)[2], "y") = FirstAt(ItemLines(k)[1], "x")
        /\ SubSeq(ItemLines(k)[2], 1, FirstAt(ItemLines(k)[2], "y") - 1)
               = Spaces(FirstAt(ItemLines(k)[2], "y") - 1)

(***************************************************************************)
(* The context stack (C26, C27).                                           *)
(***************************************************************************)
\* C26: after the last event of a document that was converted without
\* error the context stack is what it was before the first event: the
\* initial top-level context and nothing else.
C26_StackBalanced == Complete => state = <<None>>

\* the context that the open of an element pushes
Pushed(name) == IF name = "dl" THEN "list" ELSE name

\* the closes of the elements whose close pops a context
PoppingEnds ==
    {k \in Events : /\ trace[k].kind = "end" /\ Processed(k)
                    /\ trace[k].name \in {"table", "thead", "tbody", "dl"}}

\* C27: the close of a table, thead, tbody or dl pops the context that the
\* open of that element pushed: the open was handled and pushed a context
\* (it did not arrive while the top context was footnotes), and the close
\* finds that context on top of the stack.
C27_PopsOwnContext ==
    \A k \in PoppingEnds :
        /\ ~Failed(k)
        /\ Processed(OpenOf(k)) /\ trace[OpenOf(k)].top # "footnotes"
        /\ trace[k].top = Pushed(trace[k].name)

(***************************************************************************)
(* Metadata fields (C28).                                                  *)
(***************************************************************************)
\* the events handled while the top context is meta, the close of the
\* block aside
InMeta ==
    {i \in Events : Processed(i) /\ trace[i].top = "meta" /\ ~IsEnd(i, "metadaten")}

\* C28: while the top context is meta no event writes to the output and
\* none raises an error, whatever elements the metadata fields hold; a
\* metadata block writes at its close only.
C28_MetaWritesNothing ==
    \A i \in InMeta : ~Failed(i) /\ Wrote(i) = <<>>

(***************************************************************************)
(* Footnote references in running text (C29).                              *)
(***************************************************************************)
\* C29: when a footnote reference writes its anchor, no character data
\* that precedes it is still pending in the text buffers: all of it is in
\* the output already, before the anchor.
C29_AnchorAfterPrecedingText ==
    \A k \in Refs :
        (k = Len(trace) /\ InSeq(Anchor(RefId(k)), Wrote(k))) =>
            Strip(self.text \o self.current_text) = <<>>

(***************************************************************************)
(* Output inside a table (C30).                                            *)
(***************************************************************************)
\* the events between the open of a table and its close
InTable ==
    {i \in Events : \E j \in 1..(i - 1) :
        /\ IsStart(j, "table") /\ Processed(j)
        /\ \A l \in j..i : ~IsEnd(l, "table")}

\* C30: between the open and the close of a table only the open of tbody
\* (header row and separator row) and the closes of the body rows write to
\* the output; the events of a list nested in a cell write nothing, their
\* marker and text go to the accumulated text of the cell.
C30_TableWritesRowsOnly ==
    \A i \in InTable :
        (Processed(i) /\ Wrote(i) # <<>>) => (IsStart(i, "tbody") \/ i \in RowEnds)

=============================================================================
